---- MODULE Spec2Model ----
(***************************************************************************)
(* A model of the WPServer Flask application (src/server.py): the          *)
(* process-wide TTL / bounded cache, the cache-key generator, the          *)
(* rank-aligned data assembler, the cached request handlers and the        *)
(* start-up cache warming pass.                                            *)
(*                                                                         *)
(* Strings that the code takes apart or puts together (path parameters,    *)
(* cache keys, Rank values) are sequences of one-character strings.        *)
(* Python's None is the value None below; a dict is a record or function.  *)
(***************************************************************************)
EXTENDS Integers, Sequences, FiniteSets, TLC

VARIABLES
    CACHE,      \* server.py:17  the dict  key -> (data, timestamp)
    order,      \* the dict's iteration order: its keys, oldest insertion first
    now,        \* the value time.time() returns
    stored,     \* history: key -> the data of the latest set_cache(key, data)
    owner,      \* history: key -> the request whose handler stored the entry last
    last,       \* history: the operation that made the last step, with its result
    steps,      \* history: the number of steps taken
    db,         \* the document store: the collections' contents
    warm,       \* warm_cache's position and what it has fetched
    thread,     \* the request handlers running concurrently: each one's position
                \* in get_from_cache / set_cache and its local variables
    used        \* history of Spec: key -> the time at which get_from_cache last
                \* returned the entry, for the entries it has returned

vars == <<CACHE, order, now, stored, owner, last, steps, db, warm, thread, used>>

(***************************************************************************)
(* Program constants                                                       *)
(***************************************************************************)
CACHE_TTL == 3600

CACHE_MAX_SIZE == 100

(***************************************************************************)
(* Bounds of the model                                                     *)
(***************************************************************************)
\* the number of operations in one run
MaxOps == 3

None == [none |-> TRUE]

Idle == [op |-> "init"]

NoDb == [none |-> TRUE]

NoWarm == [pc |-> "off"]

NoThreads == <<>>

(***************************************************************************)
(* Sequences helpers                                                       *)
(***************************************************************************)
\* s without the element at position i
RemoveAt(s, i) == SubSeq(s, 1, i - 1) \o SubSeq(s, i + 1, Len(s))

\* the position of x in s (x occurs in s)
IndexOf(s, x) == CHOOSE i \in 1..Len(s) : s[i] = x /\ \A j \in 1..(i - 1) : s[j] # x

\* the function f without x in its domain: del f[x]
DictDel(f, x) == [y \in (DOMAIN f) \ {x} |-> f[y]]

\* the function f with f[x] = v: f[x] = v
DictSet(f, x, v) == [y \in (DOMAIN f) \cup {x} |-> IF y = x THEN v ELSE f[y]]

\* the insertion order after del d[x]
OrderDel(o, x) == RemoveAt(o, IndexOf(o, x))

\* the insertion order after d[x] = v: a new key goes last, a present key stays
OrderSet(o, x) == IF \E i \in 1..Len(o) : o[i] = x THEN o ELSE Append(o, x)

(***************************************************************************)
(* The cache: get_from_cache, set_cache, clear_cache                       *)
(***************************************************************************)
\* the mutant of IsFresh: an entry of age exactly CACHE_TTL still counts as fresh
IsFreshInclusive(timestamp, t) == t - timestamp <= CACHE_TTL

\* server.py:245  time.time() - timestamp < CACHE_TTL
IsFresh(timestamp, t) == t - timestamp < CACHE_TTL

\* the result of get_from_cache(key) on cache c with insertion order o at time t:
\* the value returned and the cache it leaves
GetFromCache(c, o, key, t) ==
    IF key \in DOMAIN c
    THEN IF IsFresh(c[key].timestamp, t)
         THEN [ret |-> c[key].data, cache |-> c, order |-> o]
         ELSE [ret |-> None, cache |-> DictDel(c, key), order |-> OrderDel(o, key)]
    ELSE [ret |-> None, cache |-> c, order |-> o]

\* the mutant of OldestKey: the first key of the dict, whatever its timestamp
OldestKeyFirst(c, o) == o[1]

\* the mutant of OldestKey: max for min, the first key whose timestamp is the largest
OldestKeyNewest(c, o) ==
    o[CHOOSE i \in 1..Len(o) :
        /\ \A j \in 1..Len(o) : c[o[i]].timestamp >= c[o[j]].timestamp
        /\ \A j \in 1..(i - 1) : c[o[j]].timestamp < c[o[i]].timestamp]

\* server.py:257  min(CACHE.keys(), key=lambda k: CACHE[k][1]): the first key, in
\* the dict's iteration order, whose timestamp is the smallest
OldestKey(c, o) ==
    o[CHOOSE i \in 1..Len(o) :
        /\ \A j \in 1..Len(o) : c[o[i]].timestamp <= c[o[j]].timestamp
        /\ \A j \in 1..(i - 1) : c[o[j]].timestamp > c[o[i]].timestamp]

\* the mutant of IsFull: the cache counts as full one entry late
IsFullLate(c) == Cardinality(DOMAIN c) > CACHE_MAX_SIZE

\* server.py:255  len(CACHE) >= CACHE_MAX_SIZE
IsFull(c) == Cardinality(DOMAIN c) >= CACHE_MAX_SIZE

\* the result of set_cache(key, data) on cache c with insertion order o at time t:
\* the keys evicted (none, or oldest_key) and the cache it leaves
SetCache(c, o, key, data, t) ==
    LET full == IsFull(c)
        oldest_key == OldestKey(c, o)
        c1 == IF full THEN DictDel(c, oldest_key) ELSE c
        o1 == IF full THEN OrderDel(o, oldest_key) ELSE o
    IN [evicted |-> IF full THEN {oldest_key} ELSE {},
        cache |-> DictSet(c1, key, [data |-> data, timestamp |-> t]),
        order |-> OrderSet(o1, key)]

(***************************************************************************)
(* Spec: the cache's operations called one at a time, from the empty cache *)
(* and from caches that CACHE_MAX_SIZE - 1 or CACHE_MAX_SIZE calls of      *)
(* set_cache on distinct keys have filled.                                 *)
(***************************************************************************)
\* the payloads stored
Payloads == {[v |-> "a"], [v |-> "b"]}

\* the keys the operations are called with
ReqKeys == {1, CACHE_MAX_SIZE - 1, CACHE_MAX_SIZE, CACHE_MAX_SIZE + 1, CACHE_MAX_SIZE + 2}

\* the clock advances between two operations
Ticks == {1, CACHE_TTL - 1, CACHE_TTL}

\* how many entries the cache holds at the start
FillLevels == {0, CACHE_MAX_SIZE - 1, CACHE_MAX_SIZE}

\* the order in time in which keys 1..n were stored: in key order one second apart,
\* in reverse key order one second apart, or all at one reading of the clock
FillPatterns == {"ascending", "descending", "same"}

FillStamp(p, k, n) ==
    IF p = "ascending" THEN k ELSE IF p = "descending" THEN n + 1 - k ELSE n

\* keys 1..n in the order they were stored
FillOrder(p, n) == [i \in 1..n |-> IF p = "descending" THEN n + 1 - i ELSE i]

InitCache ==
    /\ \E n \in FillLevels : \E p \in FillPatterns :
        /\ CACHE = [k \in 1..n |-> [data |-> [v |-> "a"], timestamp |-> FillStamp(p, k, n)]]
        /\ order = FillOrder(p, n)
        /\ stored = [k \in 1..n |-> [v |-> "a"]]
        /\ now = n
    /\ used = <<>>
    /\ owner = <<>>
    /\ last = Idle
    /\ steps = 0
    /\ db = NoDb
    /\ warm = NoWarm
    /\ thread = NoThreads

\* server.py:241-250
get_from_cache(key) ==
    LET r == GetFromCache(CACHE, order, key, now) IN
    /\ steps < MaxOps
    /\ CACHE' = r.cache
    /\ order' = r.order
    /\ last' = [op |-> "get_from_cache", key |-> key, ret |-> r.ret,
                entry |-> IF key \in DOMAIN CACHE THEN CACHE[key] ELSE None]
    /\ steps' = steps + 1
    /\ used' = IF key \in DOMAIN r.cache THEN DictSet(used, key, now) ELSE DictDel(used, key)
    /\ UNCHANGED <<now, stored, owner, db, warm, thread>>

\* server.py:252-260
set_cache(key, data) ==
    LET r == SetCache(CACHE, order, key, data, now) IN
    /\ steps < MaxOps
    /\ CACHE' = r.cache
    /\ order' = r.order
    /\ stored' = DictSet(stored, key, data)
    /\ last' = [op |-> "set_cache", key |-> key, data |-> data, evicted |-> r.evicted]
    /\ steps' = steps + 1
    /\ used' = [k \in DOMAIN used \ r.evicted |-> used[k]]
    /\ UNCHANGED <<now, owner, db, warm, thread>>

\* server.py:484-492  CACHE.clear()
clear_cache ==
    /\ steps < MaxOps
    /\ CACHE' = <<>>
    /\ order' = <<>>
    /\ last' = [op |-> "clear_cache", status |-> 200, headers |-> <<>>,
                body |-> [message |-> "Cache cleared successfully. Removed "
                                        \o ToString(Cardinality(DOMAIN CACHE))
                                        \o " entries.",
                          cache_size |-> Cardinality(DOMAIN CACHE')]]
    /\ steps' = steps + 1
    /\ used' = <<>>
    /\ UNCHANGED <<now, stored, owner, db, warm, thread>>

\* time passes between two calls
Tick ==
    /\ steps < MaxOps
    /\ \E d \in Ticks : now' = now + d
    /\ last' = [op |-> "tick"]
    /\ steps' = steps + 1
    /\ UNCHANGED <<CACHE, order, stored, owner, db, warm, thread, used>>

Get == \E key \in ReqKeys : get_from_cache(key)

Set == \E key \in ReqKeys : \E data \in Payloads : set_cache(key, data)

Next == Get \/ Set \/ clear_cache \/ Tick

Spec == InitCache /\ [][Next]_vars

(***************************************************************************)
(* Strings: str(n), int(s), "_".join(...), s.strip(), s.lower(), s.split() *)
(***************************************************************************)
Digits == <<"0", "1", "2", "3", "4", "5", "6", "7", "8", "9">>

IsDigit(ch) == \E i \in 1..10 : Digits[i] = ch

DigitVal(ch) == (CHOOSE i \in 1..10 : Digits[i] = ch) - 1

\* str(n) of a natural number n
RECURSIVE NatToStr(_)
NatToStr(n) == IF n < 10 THEN <<Digits[n + 1]>> ELSE NatToStr(n \div 10) \o <<Digits[(n % 10) + 1]>>

\* str(n) of an int n
IntToStr(n) == IF n < 0 THEN <<"-">> \o NatToStr(0 - n) ELSE NatToStr(n)

\* the number a sequence of digits denotes
RECURSIVE DigitsToNat(_)
DigitsToNat(s) ==
    IF s = <<>> THEN 0 ELSE 10 * DigitsToNat(SubSeq(s, 1, Len(s) - 1)) + DigitVal(s[Len(s)])

IsSpace(ch) == ch = " "

\* s.strip()
RECURSIVE LStrip(_)
LStrip(s) == IF s # <<>> /\ IsSpace(s[1]) THEN LStrip(Tail(s)) ELSE s

RECURSIVE RStrip(_)
RStrip(s) == IF s # <<>> /\ IsSpace(s[Len(s)]) THEN RStrip(SubSeq(s, 1, Len(s) - 1)) ELSE s

Strip(s) == RStrip(LStrip(s))

UpperCase == <<"A", "B", "C", "D", "E", "F", "G", "H", "I", "J", "K", "L", "M",
               "N", "O", "P", "Q", "R", "S", "T", "U", "V", "W", "X", "Y", "Z">>

LowerCase == <<"a", "b", "c", "d", "e", "f", "g", "h", "i", "j", "k", "l", "m",
               "n", "o", "p", "q", "r", "s", "t", "u", "v", "w", "x", "y", "z">>

LowerChar(ch) ==
    IF \E i \in 1..26 : UpperCase[i] = ch
    THEN LowerCase[CHOOSE i \in 1..26 : UpperCase[i] = ch]
    ELSE ch

\* s.lower()
Lower(s) == [i \in 1..Len(s) |-> LowerChar(s[i])]

\* sep.join(parts)
RECURSIVE Join(_, _)
Join(parts, sep) ==
    IF parts = <<>> THEN <<>>
    ELSE IF Len(parts) = 1 THEN parts[1]
    ELSE parts[1] \o sep \o Join(Tail(parts), sep)

\* s.split(sep) for a one-character sep
RECURSIVE Split(_, _)
Split(s, sep) ==
    IF \E i \in 1..Len(s) : s[i] = sep
    THEN LET i == CHOOSE i \in 1..Len(s) : s[i] = sep /\ \A j \in 1..(i - 1) : s[j] # sep
         IN <<SubSeq(s, 1, i - 1)>> \o Split(SubSeq(s, i + 1, Len(s)), sep)
    ELSE <<s>>

\* Python's int(s) of a str: surrounding whitespace and one sign are allowed, and
\* single underscores between digits; anything else raises ValueError
PyInt(s) ==
    LET t == Strip(s)
        signed == t # <<>> /\ t[1] \in {"+", "-"}
        body == IF signed THEN Tail(t) ELSE t
        wellformed ==
            /\ body # <<>>
            /\ \A i \in 1..Len(body) : IsDigit(body[i]) \/ body[i] = "_"
            /\ body[1] # "_"
            /\ body[Len(body)] # "_"
            /\ \A i \in 1..(Len(body) - 1) : ~(body[i] = "_" /\ body[i + 1] = "_")
        n == DigitsToNat(SelectSeq(body, IsDigit))
    IN IF wellformed
       THEN [ok |-> TRUE, val |-> IF signed /\ t[1] = "-" THEN 0 - n ELSE n]
       ELSE [ok |-> FALSE, error |-> "ValueError"]

(***************************************************************************)
(* cache_key_generator                                                     *)
(***************************************************************************)
\* hashlib.md5(s.encode()).hexdigest(), taken as injective on s
MD5(s) == <<"md5", s>>

\* server.py:238  "_".join(str(arg) for arg in args)
KeyString(args) == Join(args, <<"_">>)

\* server.py:236-239
cache_key_generator(args) == MD5(KeyString(args))

(***************************************************************************)
(* Values of a document's fields, and Python's str(), int() and float()    *)
(* of them. A float is num / 10^scale, with the least scale that fits.     *)
(***************************************************************************)
VNone == [t |-> "none"]

VInt(n) == [t |-> "int", n |-> n]

VStr(s) == [t |-> "str", s |-> s]

RECURSIVE VFloat(_, _)
VFloat(num, scale) ==
    IF scale > 0 /\ num % 10 = 0
    THEN VFloat(num \div 10, scale - 1)
    ELSE [t |-> "float", num |-> num, scale |-> scale]

RECURSIVE Pow10(_)
Pow10(k) == IF k = 0 THEN 1 ELSE 10 * Pow10(k - 1)

\* n written with at least k digits
RECURSIVE ZeroPad(_, _)
ZeroPad(ds, k) == IF Len(ds) >= k THEN ds ELSE ZeroPad(<<"0">> \o ds, k)

\* str(val)
PyStr(val) ==
    IF val.t = "none" THEN <<"N", "o", "n", "e">>
    ELSE IF val.t = "int" THEN IntToStr(val.n)
    ELSE IF val.t = "str" THEN val.s
    ELSE LET a == IF val.num < 0 THEN 0 - val.num ELSE val.num
             whole == NatToStr(a \div Pow10(val.scale))
             frac == IF val.scale = 0 THEN <<"0">>
                     ELSE ZeroPad(NatToStr(a % Pow10(val.scale)), val.scale)
         IN (IF val.num < 0 THEN <<"-">> ELSE <<>>) \o whole \o <<".">> \o frac

\* Python's float(s) of a str: surrounding whitespace and one sign are allowed, then
\* digits with at most one point among them; anything else raises ValueError
\* (exponents, "nan" and "inf" are not among the values modelled)
PyFloat(s) ==
    LET t == Strip(s)
        signed == t # <<>> /\ t[1] \in {"+", "-"}
        body == IF signed THEN Tail(t) ELSE t
        parts == Split(body, ".")
        wellformed ==
            /\ Len(parts) <= 2
            /\ \A i \in 1..Len(parts) : \A j \in 1..Len(parts[i]) : IsDigit(parts[i][j])
            /\ \E i \in 1..Len(parts) : parts[i] # <<>>
        scale == IF Len(parts) = 2 THEN Len(parts[2]) ELSE 0
        n == DigitsToNat(SelectSeq(body, IsDigit))
    IN IF wellformed
       THEN [ok |-> TRUE, val |-> VFloat(IF signed /\ t[1] = "-" THEN 0 - n ELSE n, scale)]
       ELSE [ok |-> FALSE, error |-> "ValueError"]

\* int(val): an int is itself, a float is cut towards zero, a str is parsed
ToInt(val) ==
    IF val.t = "int" THEN [ok |-> TRUE, val |-> val]
    ELSE IF val.t = "float"
    THEN LET a == IF val.num < 0 THEN 0 - val.num ELSE val.num
             q == a \div Pow10(val.scale)
         IN [ok |-> TRUE, val |-> VInt(IF val.num < 0 THEN 0 - q ELSE q)]
    ELSE IF val.t = "str"
    THEN LET r == PyInt(val.s)
         IN IF r.ok THEN [ok |-> TRUE, val |-> VInt(r.val)] ELSE r
    ELSE [ok |-> FALSE, error |-> "TypeError"]

\* float(val)
ToFloat(val) ==
    IF val.t = "int" THEN [ok |-> TRUE, val |-> VFloat(val.n, 0)]
    ELSE IF val.t = "float" THEN [ok |-> TRUE, val |-> val]
    ELSE IF val.t = "str" THEN PyFloat(val.s)
    ELSE [ok |-> FALSE, error |-> "TypeError"]

(***************************************************************************)
(* The rank-aligned data assembler                                         *)
(***************************************************************************)
UNRANKED == <<"u", "n", "r", "a", "n", "k", "e", "d">>

\* server.py:38  ["1", "2", ..., "20", "unranked"]
RANK_ORDER == [i \in 1..20 |-> IntToStr(i)] \o <<UNRANKED>>

\* the field names "Rank" and "rank"
F_Rank == <<"R", "a", "n", "k">>

F_rank == <<"r", "a", "n", "k">>

\* the elements of the sequence s
Range(s) == {s[i] : i \in 1..Len(s)}

\* server.py:275-277  str(doc.get("Rank")).strip().lower()
NormalizedRank(doc) ==
    Lower(Strip(PyStr(IF F_Rank \in DOMAIN doc THEN doc[F_Rank] ELSE VNone)))

\* the mutant of DocMap: the first document of a rank is kept
DocMapFirst(docs) ==
    [r \in {NormalizedRank(docs[i]) : i \in 1..Len(docs)} |->
        docs[CHOOSE i \in 1..Len(docs) :
                /\ NormalizedRank(docs[i]) = r
                /\ \A j \in 1..(i - 1) : NormalizedRank(docs[j]) # r]]

\* server.py:273-278  doc_map: each document is stored under its normalized rank, in
\* the order the collection returns them, a later one replacing an earlier one
RECURSIVE DocMapFrom(_, _)
DocMapFrom(docs, doc_map) ==
    IF docs = <<>> THEN doc_map
    ELSE DocMapFrom(Tail(docs), DictSet(doc_map, NormalizedRank(docs[1]), docs[1]))

DocMap(docs) == DocMapFrom(docs, <<>>)

\* server.py:295  val is None or val == ""
IsBlank(val) == val.t = "none" \/ (val.t = "str" /\ val.s = <<>>)

\* server.py:298  float(val) if is_float else int(val)
Convert(val, is_float) == IF is_float THEN ToFloat(val) ELSE ToInt(val)

\* server.py:295-298  the value a field of a matched document gets in its row
CleanValue(val, is_float) ==
    IF IsBlank(val) THEN [ok |-> TRUE, val |-> VNone] ELSE Convert(val, is_float)

\* server.py:285-288  the row of a rank no document matches
EmptyRow(rank) ==
    [h \in {F_rank} \cup Range(RANK_ORDER) |-> IF h = F_rank THEN VStr(rank) ELSE VNone]

\* server.py:291-299  the row of a rank and its document: "rank" first, then every
\* field but "Rank" is assigned in turn (a field named "rank" replaces the first)
CleanRow(rank, doc, is_float) ==
    [key \in {F_rank} \cup ((DOMAIN doc) \ {F_Rank}) |->
        IF key \in DOMAIN doc THEN CleanValue(doc[key], is_float).val ELSE VStr(rank)]

\* whether building the row of doc raises: a value that does not convert
RowRaises(doc, is_float) ==
    \E key \in (DOMAIN doc) \ {F_Rank} : ~CleanValue(doc[key], is_float).ok

\* server.py:268-301  docs is what collection.find returns, in its order
fetch_collection_as_aligned_list(docs, is_float) ==
    LET doc_map == DocMap(docs)
        matched == {i \in 1..Len(RANK_ORDER) : RANK_ORDER[i] \in DOMAIN doc_map}
    IN IF \E i \in matched : RowRaises(doc_map[RANK_ORDER[i]], is_float)
       THEN [ok |-> FALSE, error |-> "ValueError"]
       ELSE [ok |-> TRUE,
             val |-> [i \in 1..Len(RANK_ORDER) |->
                        IF i \in matched
                        THEN CleanRow(RANK_ORDER[i], doc_map[RANK_ORDER[i]], is_float)
                        ELSE EmptyRow(RANK_ORDER[i])]]

(***************************************************************************)
(* Claims about the cache                                                  *)
(***************************************************************************)
\* the age at time t of the entry e
Age(e, t) == t - e.timestamp

\* C1: get_from_cache(key) on an absent key returns a miss and leaves the cache as it
\* was; on a present key younger than 3600 seconds it returns the payload last
\* stored under the key; on a present key of age 3600 seconds or more (3600 itself
\* included) it returns a miss and the key is no longer in the cache.
C1_GetFromCacheContract ==
    [][last'.op = "get_from_cache" =>
        LET key == last'.key IN
        /\ key \notin DOMAIN CACHE => last'.ret = None /\ CACHE' = CACHE
        /\ (key \in DOMAIN CACHE /\ Age(CACHE[key], now) < 3600) =>
               last'.ret = stored[key]
        /\ (key \in DOMAIN CACHE /\ Age(CACHE[key], now) >= 3600) =>
               last'.ret = None /\ key \notin DOMAIN CACHE']_vars

\* C1's case: a lookup of an entry of age exactly 3600 seconds has missed, and a
\* lookup of it one second earlier would have hit
C1_Witness ==
    /\ last.op = "get_from_cache"
    /\ last.entry # None
    /\ Age(last.entry, now) = 3600
    /\ last.ret = None
    /\ last.key \notin DOMAIN CACHE

\* C2: set_cache(key, data) on a cache of 100 or more entries removes exactly one
\* entry, one whose timestamp is the smallest of all entries in the cache, before it
\* inserts; on a cache of fewer than 100 entries it removes nothing; in both cases
\* the cache afterwards maps key to (data, current time).
C2_SetCacheContract ==
    [][last'.op = "set_cache" =>
        LET key == last'.key
            old == DOMAIN CACHE
        IN
        /\ Cardinality(old) >= 100 =>
               \E e \in old :
                   /\ \A f \in old : CACHE[e].timestamp <= CACHE[f].timestamp
                   /\ DOMAIN CACHE' = (old \ {e}) \cup {key}
                   /\ \A f \in old \ {e, key} : CACHE'[f] = CACHE[f]
        /\ Cardinality(old) < 100 =>
               /\ DOMAIN CACHE' = old \cup {key}
               /\ \A f \in old \ {key} : CACHE'[f] = CACHE[f]
        /\ key \in DOMAIN CACHE'
        /\ CACHE'[key] = [data |-> last'.data, timestamp |-> now']]_vars

\* C2's case: a store into a full cache has evicted an entry that was not the first
\* one of the dict
C2_Witness ==
    /\ last.op = "set_cache"
    /\ last.evicted = {CACHE_MAX_SIZE}
    /\ last.key \in DOMAIN CACHE
    /\ Cardinality(DOMAIN CACHE) = CACHE_MAX_SIZE

\* C3: whatever sequence of get_from_cache, set_cache and clear_cache calls runs, one
\* call at a time, CACHE never holds more than CACHE_MAX_SIZE = 100 entries, entries
\* past their TTL counted.
C3_SizeBounded == Cardinality(DOMAIN CACHE) <= 100

\* C3's case: a store has left the cache at its capacity, entries past their TTL
\* among them
C3_Witness ==
    /\ last.op = "set_cache"
    /\ last.evicted # {}
    /\ Cardinality(DOMAIN CACHE) = 100
    /\ \E k \in DOMAIN CACHE : Age(CACHE[k], now) >= CACHE_TTL

(***************************************************************************)
(* SpecAlign: fetch_collection_as_aligned_list applied to the collections  *)
(* of at most MaxDocs documents drawn from AlignDocs.                      *)
(***************************************************************************)
\* the number of documents of a collection
MaxDocs == 2

\* the Rank values of the documents: 1 as an int and as a padded string, "UNRANKED"
\* in capitals, a rank that is none of the 21, and no Rank at all
AlignRanks ==
    {VInt(1), VStr(<<" ", "1", " ">>), VStr(<<"U", "N", "R", "A", "N", "K", "E", "D">>),
     VInt(25), VNone}

\* the values of a document's column: null, the empty string, an int, a float, a
\* numeric string and a string that is no number
AlignValues ==
    {VNone, VStr(<<>>), VInt(3), VFloat(25, 1), VStr(<<"0", ".", "5">>), VStr(<<"x">>)}

\* documents {"Rank": r, "2": v}, without the Rank field when r is null, and two
\* documents that also carry a field named "rank"
AlignDocs ==
    {IF r = VNone THEN (<<"2">> :> v) ELSE (F_Rank :> r) @@ (<<"2">> :> v) :
        r \in AlignRanks, v \in AlignValues}
    \cup {(F_Rank :> VInt(1)) @@ (<<"2">> :> VInt(3)) @@ (F_rank :> v) :
            v \in {VInt(7), VNone}}

AlignCollections == UNION {[1..n -> AlignDocs] : n \in 0..MaxDocs}

InitAlign ==
    /\ db \in [docs : AlignCollections, is_float : BOOLEAN]
    /\ last = Idle
    /\ steps = 0
    /\ CACHE = <<>>
    /\ order = <<>>
    /\ stored = <<>>
    /\ owner = <<>>
    /\ now = 0
    /\ warm = NoWarm
    /\ thread = NoThreads
    /\ used = <<>>

Fetch ==
    /\ last = Idle
    /\ last' = [op |-> "fetch_collection_as_aligned_list",
                ret |-> fetch_collection_as_aligned_list(db.docs, db.is_float)]
    /\ steps' = steps + 1
    /\ UNCHANGED <<CACHE, order, now, stored, owner, db, warm, thread, used>>

NextAlign == Fetch

SpecAlign == InitAlign /\ [][NextAlign]_vars

Fetched == last.op = "fetch_collection_as_aligned_list" /\ last.ret.ok

\* C5: for every collection whose values convert, fetch_collection_as_aligned_list
\* returns exactly 21 rows whose "rank" fields are, in order, "1", ..., "20",
\* "unranked".
C5_RankFieldsInOrder ==
    Fetched =>
        /\ Len(last.ret.val) = 21
        /\ \A i \in 1..21 :
            /\ F_rank \in DOMAIN last.ret.val[i]
            /\ last.ret.val[i][F_rank] =
                 VStr(IF i <= 20 THEN IntToStr(i) ELSE UNRANKED)

\* the positions in docs of the documents whose Rank, as a string, trimmed and
\* lower-cased, is rank
Matching(docs, rank) ==
    {j \in 1..Len(docs) :
        Lower(Strip(PyStr(IF F_Rank \in DOMAIN docs[j] THEN docs[j][F_Rank] ELSE VNone)))
            = rank}

Last(S) == CHOOSE j \in S : \A k \in S : k <= j

\* C10: a canonical rank with no matching document gets a row with "rank" set and
\* the 21 rank columns null; a canonical rank with a matching document gets a row with
\* every field of the document but Rank, null for a null or empty-string value and
\* int(value) or float(value), by the is_float flag, for any other; of several
\* documents of one rank, the one the collection returns last makes the row.
C10_RowContents ==
    Fetched =>
        \A i \in 1..21 :
            LET rank == RANK_ORDER[i]
                row == last.ret.val[i]
                hits == Matching(db.docs, rank)
                doc == db.docs[Last(hits)]
            IN IF hits = {}
               THEN /\ DOMAIN row = {F_rank} \cup Range(RANK_ORDER)
                    /\ row[F_rank] = VStr(rank)
                    /\ \A h \in Range(RANK_ORDER) : row[h] = VNone
               ELSE /\ DOMAIN row = {F_rank} \cup ((DOMAIN doc) \ {F_Rank})
                    /\ \A key \in (DOMAIN doc) \ {F_Rank} :
                        [ok |-> TRUE, val |-> row[key]] =
                            IF doc[key] = VNone \/ doc[key] = VStr(<<>>)
                            THEN [ok |-> TRUE, val |-> VNone]
                            ELSE IF db.is_float THEN ToFloat(doc[key])
                            ELSE ToInt(doc[key])

\* C10's case: two documents of rank 1 with different values, the later one in the
\* row, beside a rank that no document matches
C10_Witness ==
    /\ Fetched
    /\ Len(db.docs) = 2
    /\ Matching(db.docs, <<"1">>) = {1, 2}
    /\ db.docs[1][<<"2">>] = VInt(3)
    /\ db.docs[2][<<"2">>] = VStr(<<>>)
    /\ last.ret.val[1][<<"2">>] = VNone
    /\ last.ret.val[2][<<"2">>] = VNone
    /\ last.ret.val[2][<<"1">>] = VNone

(***************************************************************************)
(* Dates: datetime.strptime, strftime, and the order of strings            *)
(***************************************************************************)
IsLeap(y) == (y % 4 = 0 /\ y % 100 # 0) \/ y % 400 = 0

DaysIn(y, m) ==
    IF m = 2 THEN (IF IsLeap(y) THEN 29 ELSE 28)
    ELSE IF m \in {4, 6, 9, 11} THEN 30 ELSE 31

AllDigits(s) == s # <<>> /\ \A i \in 1..Len(s) : IsDigit(s[i])

\* the date of year, month and day fields, or ValueError
MakeDate(y, m, d) ==
    IF /\ AllDigits(y) /\ AllDigits(m) /\ AllDigits(d)
       /\ Len(y) = 4 /\ Len(m) <= 2 /\ Len(d) <= 2
       /\ DigitsToNat(y) >= 1
       /\ DigitsToNat(m) \in 1..12
       /\ DigitsToNat(d) \in 1..DaysIn(DigitsToNat(y), DigitsToNat(m))
    THEN [ok |-> TRUE, val |-> <<DigitsToNat(y), DigitsToNat(m), DigitsToNat(d)>>]
    ELSE [ok |-> FALSE, error |-> "ValueError"]

\* datetime.strptime(s, "%Y-%m-%d")
StrpYmd(s) ==
    LET parts == Split(s, "-")
    IN IF Len(parts) = 3 THEN MakeDate(parts[1], parts[2], parts[3])
       ELSE [ok |-> FALSE, error |-> "ValueError"]

\* datetime.strptime(s, "%m/%d/%Y")
StrpMdy(s) ==
    LET parts == Split(s, "/")
    IN IF Len(parts) = 3 THEN MakeDate(parts[3], parts[1], parts[2])
       ELSE [ok |-> FALSE, error |-> "ValueError"]

\* d.strftime("%Y-%m-%d")
StrfYmd(d) ==
    ZeroPad(NatToStr(d[1]), 4) \o <<"-">> \o ZeroPad(NatToStr(d[2]), 2)
        \o <<"-">> \o ZeroPad(NatToStr(d[3]), 2)

\* a <= b for two dates
DateLeq(a, b) ==
    \/ a[1] < b[1]
    \/ a[1] = b[1] /\ a[2] < b[2]
    \/ a[1] = b[1] /\ a[2] = b[2] /\ a[3] <= b[3]

\* the characters of the strings compared, in code-point order
CharOrder == <<" ", "-", ".">> \o Digits \o UpperCase \o LowerCase

Ord(ch) == CHOOSE i \in 1..Len(CharOrder) : CharOrder[i] = ch

\* a < b for two strings
RECURSIVE StrLess(_, _)
StrLess(a, b) ==
    IF b = <<>> THEN FALSE
    ELSE IF a = <<>> THEN TRUE
    ELSE IF a[1] = b[1] THEN StrLess(Tail(a), Tail(b))
    ELSE Ord(a[1]) < Ord(b[1])

(***************************************************************************)
(* Team names                                                              *)
(***************************************************************************)
\* server.py:45-138  the entries of TEAM_NAME_TO_ID for teams 1, 2 and 3, in the
\* dict's order
TEAM_NAME_TO_ID ==
    <<[name |-> <<"U", "S", "C">>, id |-> 1],
      [name |-> <<"U", "C", "L", "A">>, id |-> 2],
      [name |-> <<"C", "a", "l", "i", "f", "o", "r", "n", "i", "a">>, id |-> 3],
      [name |-> <<"C", "a", "l">>, id |-> 3],
      [name |-> <<"S", "o", "u", "t", "h", "e", "r", "n", " ", "C", "a", "l">>, id |-> 1]>>

\* server.py:141-178  the entries of ID_TO_TEAM_NAME for teams 1, 2 and 3
ID_TO_TEAM_NAME ==
    (1 :> <<"U", "S", "C">>) @@ (2 :> <<"U", "C", "L", "A">>)
        @@ (3 :> <<"U", "C", " ", "B", "e", "r", "k", "e", "l", "e", "y">>)

\* server.py:203-221  the id found, or not found (None)
convert_team_name_to_id(team_name) ==
    LET name == Strip(team_name)
        exact == {i \in 1..Len(TEAM_NAME_TO_ID) : TEAM_NAME_TO_ID[i].name = name}
        nocase == {i \in 1..Len(TEAM_NAME_TO_ID) :
                     Lower(TEAM_NAME_TO_ID[i].name) = Lower(name)}
        First(I) == CHOOSE i \in I : \A j \in I : i <= j
    IN IF team_name = <<>> THEN [found |-> FALSE]
       ELSE IF exact # {} THEN [found |-> TRUE, id |-> TEAM_NAME_TO_ID[First(exact)].id]
       ELSE IF nocase # {} THEN [found |-> TRUE, id |-> TEAM_NAME_TO_ID[First(nocase)].id]
       ELSE [found |-> FALSE]

\* server.py:41-42  the ranking history file: date string -> the teams ranked then
rankings ==
    <<[date |-> <<"0", "9", "/", "0", "4", "/", "2", "0", "2", "4">>,
       list |-> <<[team_id |-> 2, ranking |-> 1], [team_id |-> 1, ranking |-> 2]>>],
      [date |-> <<"0", "9", "/", "1", "1", "/", "2", "0", "2", "4", "-", "2">>,
       list |-> <<[team_id |-> 1, ranking |-> 1], [team_id |-> 7, ranking |-> 2]>>],
      [date |-> <<"p", "r", "e", "s", "e", "a", "s", "o", "n">>,
       list |-> <<[team_id |-> 3, ranking |-> 1]>>]>>

(***************************************************************************)
(* Responses                                                               *)
(***************************************************************************)
\* the truth value Python gives a cached payload: None and the empty dict are false
Truthy(data) == data # None /\ DOMAIN data # {}

\* the headers a response carries besides those of the framework
NoHeaders == <<>>

\* the mutant of add_cache_headers: the ETag is left out
add_cache_headers_no_etag(body, max_age) ==
    ("Cache-Control" :> ("public, max-age=" \o ToString(max_age) \o ", s-maxage="
                            \o ToString(max_age) \o ", stale-while-revalidate=7200"))

\* server.py:262-266  the headers add_cache_headers sets on the response of body
add_cache_headers(body, max_age) ==
    ("Cache-Control" :> ("public, max-age=" \o ToString(max_age) \o ", s-maxage="
                            \o ToString(max_age) \o ", stale-while-revalidate=7200"))
    @@ ("ETag" :> MD5(body))

\* make_response(jsonify(data)), add_cache_headers(response), 200
Ok200(data) == [status |-> 200, body |-> data, headers |-> add_cache_headers(data, 3600)]

\* the mutant of Err500: the status is left out, so the error goes out as a 200
Err500NoStatus(e) == [status |-> 200, body |-> [error |-> e], headers |-> NoHeaders]

\* jsonify({"error": str(e)}), 500
Err500(e) == [status |-> 500, body |-> [error |-> e], headers |-> NoHeaders]

(***************************************************************************)
(* The document store, and what each cached handler computes on a miss     *)
(***************************************************************************)
\* collection.find(...): the documents of db[name], or the driver's error when the
\* store cannot be reached
Find(d, name) ==
    IF d.up THEN [ok |-> TRUE, val |-> d[name]]
    ELSE [ok |-> FALSE, error |-> "ServerSelectionTimeoutError"]

\* server.py:316-325  result_data of get_matrix
MatrixData(d) ==
    LET delim_docs == Find(d, "Delim")
        delim_data == fetch_collection_as_aligned_list(delim_docs.val, FALSE)
        prob_docs == Find(d, "Probabilities")
        prob_data == fetch_collection_as_aligned_list(prob_docs.val, TRUE)
    IN IF ~delim_docs.ok THEN delim_docs
       ELSE IF ~delim_data.ok THEN delim_data
       ELSE IF ~prob_docs.ok THEN prob_docs
       ELSE IF ~prob_data.ok THEN prob_data
       ELSE [ok |-> TRUE,
             val |-> [headers |-> RANK_ORDER,
                      probData |-> prob_data.val,
                      delimData |-> delim_data.val]]

\* the mutant of MatchesKey: the ranks joined as they come, not decremented
MatchesKeyPlain(row, col) == IntToStr(row) \o <<"_">> \o IntToStr(col)

\* server.py:355  f"{int(row_rank)-1}_{int(col_rank)-1}" of the two parsed ranks
MatchesKey(row, col) == IntToStr(row - 1) \o <<"_">> \o IntToStr(col - 1)

\* server.py:355-366  result_data of get_matches
MatchesData(d, row_rank, col_rank) ==
    LET row == PyInt(row_rank)
        col == PyInt(col_rank)
        key1 == MatchesKey(row.val, col.val)
        matches_doc == Find(d, "matches")
        games == matches_doc.val[1][key1]
    IN IF ~row.ok THEN row
       ELSE IF ~col.ok THEN col
       ELSE IF ~matches_doc.ok THEN matches_doc
       ELSE IF matches_doc.val = <<>> THEN [ok |-> FALSE, error |-> "IndexError"]
       ELSE IF key1 \notin DOMAIN matches_doc.val[1] THEN [ok |-> FALSE, error |-> "KeyError"]
       ELSE [ok |-> TRUE,
             val |-> [matches |-> games, count |-> Len(games),
                      row_rank |-> row_rank, col_rank |-> col_rank]]

\* server.py:398  [name.strip() for name in team_names.split(',')]
RequestedTeams(team_names) ==
    LET parts == Split(team_names, ",") IN [i \in 1..Len(parts) |-> Strip(parts[i])]

\* server.py:399-411  the ids of the requested teams: a mapped name gives its id, any
\* other name the number it spells, and a name that spells none is dropped
RECURSIVE TargetTeamIds(_)
TargetTeamIds(names) ==
    IF names = <<>> THEN <<>>
    ELSE LET team_id == convert_team_name_to_id(names[1])
             direct == PyInt(names[1])
         IN (IF team_id.found /\ team_id.id # 0 THEN <<team_id.id>>
             ELSE IF direct.ok THEN <<direct.val>>
             ELSE <<>>)
            \o TargetTeamIds(Tail(names))

\* server.py:425-439  the records of one ranking list for the teams looked for
RECURSIVE TeamRecords(_, _, _)
TeamRecords(list, date, ids) ==
    IF list = <<>> THEN <<>>
    ELSE (IF list[1].team_id \in Range(ids)
          THEN <<[team_id |-> list[1].team_id,
                  team_name |-> IF list[1].team_id \in DOMAIN ID_TO_TEAM_NAME
                                THEN ID_TO_TEAM_NAME[list[1].team_id]
                                ELSE <<"T", "e", "a", "m", " ">> \o IntToStr(list[1].team_id),
                  date |-> StrfYmd(date),
                  rank |-> list[1].ranking]>>
          ELSE <<>>)
         \o TeamRecords(Tail(list), date, ids)

\* server.py:415-439  history: the ranking lists whose date, the part of the key
\* before its first "-", parses and lies in the range
RECURSIVE History(_, _, _, _)
History(table, start_dt, end_dt, ids) ==
    IF table = <<>> THEN <<>>
    ELSE LET current_date == StrpMdy(Split(table[1].date, "-")[1])
         IN (IF current_date.ok /\ DateLeq(start_dt, current_date.val)
                               /\ DateLeq(current_date.val, end_dt)
             THEN TeamRecords(table[1].list, current_date.val, ids)
             ELSE <<>>)
            \o History(Tail(table), start_dt, end_dt, ids)

\* x sorts before y by (date, team_name)
RecordLess(x, y) ==
    StrLess(x.date, y.date) \/ (x.date = y.date /\ StrLess(x.team_name, y.team_name))

\* server.py:442  history.sort(key=...): a stable sort
RECURSIVE SortHistory(_)
SortHistory(h) ==
    IF h = <<>> THEN <<>>
    ELSE LET sorted == SortHistory(SubSeq(h, 1, Len(h) - 1))
             x == h[Len(h)]
             before == {i \in 1..Len(sorted) : ~RecordLess(x, sorted[i])}
             k == IF before = {} THEN 0 ELSE CHOOSE i \in before : \A j \in before : j <= i
         IN SubSeq(sorted, 1, k) \o <<x>> \o SubSeq(sorted, k + 1, Len(sorted))

\* server.py:394-453  result_data of get_team_ranking_history
RankingsData(team_names, start_date, end_date) ==
    LET start_dt == StrpYmd(start_date)
        end_dt == StrpYmd(end_date)
        requested_teams == RequestedTeams(team_names)
        target_team_ids == TargetTeamIds(requested_teams)
        history == SortHistory(History(rankings, start_dt.val, end_dt.val, target_team_ids))
    IN IF ~start_dt.ok THEN start_dt
       ELSE IF ~end_dt.ok THEN end_dt
       ELSE [ok |-> TRUE,
             val |-> [data |-> history, count |-> Len(history),
                      requested_teams |-> requested_teams,
                      target_team_ids |-> target_team_ids,
                      date_range |-> [start |-> start_date, end |-> end_date]]]

\* the ids in S, smallest first
RECURSIVE Sorted(_)
Sorted(S) ==
    IF S = {} THEN <<>>
    ELSE LET m == CHOOSE x \in S : \A y \in S : x <= y IN <<m>> \o Sorted(S \ {m})

\* server.py:509-532  result_data of get_available_teams
TeamsData ==
    LET all_team_ids ==
            UNION {{rankings[i].list[j].team_id : j \in 1..Len(rankings[i].list)} :
                      i \in 1..Len(rankings)} \ {0}
        ids == Sorted(all_team_ids)
        teams_list ==
            [i \in 1..Len(ids) |->
                [team_id |-> ids[i],
                 team_name |-> IF ids[i] \in DOMAIN ID_TO_TEAM_NAME
                               THEN ID_TO_TEAM_NAME[ids[i]]
                               ELSE <<"T", "e", "a", "m", " ">> \o IntToStr(ids[i])]]
    IN [ok |-> TRUE,
        val |-> [teams |-> teams_list, team_count |-> Len(teams_list),
                 name_mappings |-> TEAM_NAME_TO_ID, id_mappings |-> ID_TO_TEAM_NAME]]

(***************************************************************************)
(* SpecHttp: the endpoints, one request at a time, over a document store   *)
(* that is healthy, unreachable, empty, or holds a value that is no number *)
(***************************************************************************)
\* a cached handler: look the key of args up; on a hit answer with the cached
\* payload; on a miss answer with the computed result and store it, or answer with the
\* error (server.py:305-336, 341-376, 381-463, 497-542)
ServeCached(handler, args, result) ==
    LET cache_key == cache_key_generator(args)
        cached == GetFromCache(CACHE, order, cache_key, now)
        put == SetCache(cached.cache, cached.order, cache_key, result.val, now)
        request == [op |-> handler, args |-> args, key |-> cache_key]
    IN /\ steps < MaxOps
       /\ steps' = steps + 1
       /\ IF Truthy(cached.ret)
          THEN /\ CACHE' = cached.cache
               /\ order' = cached.order
               /\ last' = request @@ [hit |-> TRUE] @@ Ok200(cached.ret)
               /\ UNCHANGED <<stored, owner>>
          ELSE IF result.ok
          THEN /\ CACHE' = put.cache
               /\ order' = put.order
               /\ stored' = DictSet(stored, cache_key, result.val)
               /\ owner' = DictSet(owner, cache_key, [op |-> handler, args |-> args])
               /\ last' = request @@ [hit |-> FALSE] @@ Ok200(result.val)
          ELSE /\ CACHE' = cached.cache
               /\ order' = cached.order
               /\ last' = request @@ [hit |-> FALSE] @@ Err500(result.error)
               /\ UNCHANGED <<stored, owner>>
       /\ UNCHANGED <<now, db, warm, thread, used>>

OP_MATRIX == <<"m", "a", "t", "r", "i", "x">>

OP_MATCHES == <<"m", "a", "t", "c", "h", "e", "s">>

OP_RANKINGS == <<"r", "a", "n", "k", "i", "n", "g", "s">>

OP_TEAMS == <<"a", "v", "a", "i", "l", "a", "b", "l", "e", "_", "t", "e", "a", "m", "s">>

V1 == <<"v", "1">>

\* the path parameters of the /api/matches requests
MatchRequests ==
    {<<<<"4">>, <<"1", "0">>>>, <<<<"1", "0">>, <<"4">>>>,
     <<<<"3">>, <<"5">>>>, <<<<"5">>, <<"3">>>>,
     <<<<"1", "_", "2">>, <<"3">>>>, <<<<"1">>, <<"2", "_", "3">>>>,
     <<<<"x">>, <<"1">>>>}

\* the path parameters of the /rankings requests: names and an id among the teams
\* and a month's range, an end date that is no date, and a one-team range
RankingsRequests ==
    {<<<<"U", "C", "L", "A", ",", " ", "u", "s", "c", ",", "7", ",", "z", "z">>,
       <<"2", "0", "2", "4", "-", "0", "9", "-", "0", "1">>,
       <<"2", "0", "2", "4", "-", "0", "9", "-", "3", "0">>>>,
     <<<<"C", "a", "l">>,
       <<"2", "0", "2", "4", "-", "0", "9", "-", "1", "0">>,
       <<"2", "0", "2", "4", "-", "9", "-", "3", "1">>>>,
     <<<<"2">>,
       <<"2", "0", "2", "4", "-", "0", "9", "-", "0", "1">>,
       <<"2", "0", "2", "4", "-", "0", "9", "-", "0", "4">>>>}

\* server.py:303-336  GET /api/matrix
get_matrix == ServeCached("get_matrix", <<OP_MATRIX, V1>>, MatrixData(db))

\* server.py:338-376  GET /api/matches/<row_rank>/<col_rank>
get_matches ==
    \E r \in MatchRequests :
        ServeCached("get_matches", <<OP_MATCHES>> \o r, MatchesData(db, r[1], r[2]))

\* server.py:379-463  GET /rankings/<team_names>/<start_date>/<end_date>
get_team_ranking_history ==
    \E r \in RankingsRequests :
        ServeCached("get_team_ranking_history", <<OP_RANKINGS>> \o r,
                    RankingsData(r[1], r[2], r[3]))

\* server.py:494-542  GET /api/teams
get_available_teams == ServeCached("get_available_teams", <<OP_TEAMS, V1>>, TeamsData)

\* server.py:467-470  GET /api/health
health_check ==
    /\ steps < MaxOps
    /\ steps' = steps + 1
    /\ last' = [op |-> "health_check", status |-> 200, headers |-> NoHeaders,
                body |-> [status |-> "healthy", message |-> "Flask server is running"]]
    /\ UNCHANGED <<CACHE, order, now, stored, owner, db, warm, thread, used>>

\* server.py:472-481  GET /api/cache/info
cache_info ==
    /\ steps < MaxOps
    /\ steps' = steps + 1
    /\ last' = [op |-> "cache_info", status |-> 200, headers |-> NoHeaders,
                body |-> [cache_size |-> Cardinality(DOMAIN CACHE),
                          max_cache_size |-> CACHE_MAX_SIZE,
                          cache_ttl_seconds |-> CACHE_TTL,
                          cached_keys |->
                              IF Cardinality(DOMAIN CACHE) < 20 THEN order
                              ELSE <<ToString(Cardinality(DOMAIN CACHE))
                                        \o " keys (too many to list)">>]]
    /\ UNCHANGED <<CACHE, order, now, stored, owner, db, warm, thread, used>>

\* the games of the matches document
Games == [g12 |-> <<"game1", "game2">>, g3 |-> <<"game3">>, none |-> <<>>]

\* the document of the matches collection: ranks 4 v 10, 12 v 3 and 3 v 5
MatchesDoc ==
    (<<"3", "_", "9">> :> Games.g12) @@ (<<"1", "1", "_", "2">> :> Games.g3)
        @@ (<<"2", "_", "4">> :> Games.none)

DelimDocs ==
    <<(F_Rank :> VInt(1)) @@ (<<"1">> :> VInt(0)) @@ (<<"2">> :> VStr(<<"1", "2">>)),
      (F_Rank :> VStr(<<"U", "n", "r", "a", "n", "k", "e", "d">>)) @@ (<<"1">> :> VNone)
        @@ (<<"2">> :> VStr(<<>>))>>

ProbDocs ==
    <<(F_Rank :> VInt(1)) @@ (<<"1">> :> VNone) @@ (<<"2">> :> VStr(<<"0", ".", "7", "5">>)),
      (F_Rank :> VInt(2)) @@ (<<"1">> :> VFloat(25, 2)) @@ (<<"2">> :> VInt(1))>>

\* a Probabilities document one of whose values is no number
BadProbDoc == (F_Rank :> VInt(3)) @@ (<<"1">> :> VStr(<<"n", "/", "a">>))

Healthy == [up |-> TRUE, Delim |-> DelimDocs, Probabilities |-> ProbDocs,
            matches |-> <<MatchesDoc>>]

DbStates ==
    {Healthy,
     [Healthy EXCEPT !.up = FALSE],
     [Healthy EXCEPT !.Delim = <<>>, !.Probabilities = <<>>, !.matches = <<>>],
     [Healthy EXCEPT !.Probabilities = Append(ProbDocs, BadProbDoc)]}

InitHttp ==
    /\ db \in DbStates
    /\ CACHE = <<>>
    /\ order = <<>>
    /\ stored = <<>>
    /\ owner = <<>>
    /\ now = 0
    /\ last = Idle
    /\ steps = 0
    /\ warm = NoWarm
    /\ thread = NoThreads
    /\ used = <<>>

NextHttp ==
    \/ get_matrix
    \/ get_matches
    \/ get_team_ranking_history
    \/ get_available_teams
    \/ health_check
    \/ cache_info
    \/ clear_cache
    \/ Tick

SpecHttp == InitHttp /\ [][NextHttp]_vars

(***************************************************************************)
(* Claims about the endpoints                                              *)
(***************************************************************************)
\* the last step was a request to one of the four cached handlers
CachedRequest(l) ==
    l.op \in {"get_matrix", "get_matches", "get_team_ranking_history",
              "get_available_teams"}

\* C4: cache_key_generator gives the same key to the same argument sequence and
\* different keys to different argument sequences (another order, another split of
\* the same characters across the path parameters), the digest taken as injective; so
\* no request is served a cache entry that was stored for a request with other path
\* parameters.
C4_NoCrossServing ==
    (CachedRequest(last) /\ last.hit) =>
        owner[last.key] = [op |-> last.op, args |-> last.args]

\* what the handler of a request computes on a miss
Computed(l) ==
    IF l.op = "get_matrix" THEN MatrixData(db)
    ELSE IF l.op = "get_matches" THEN MatchesData(db, l.args[2], l.args[3])
    ELSE IF l.op = "get_team_ranking_history"
    THEN RankingsData(l.args[2], l.args[3], l.args[4])
    ELSE TeamsData

\* C6: a cached handler answers an internal failure (the store unreachable, no
\* matches document or pairwise key, a rank parameter that is no number, a date
\* bound that does not parse, a collection value that does not convert) with HTTP 500
\* and an {error: message} body, and the failed request leaves no entry under its key.
C6_FailureIs500AndUncached ==
    [][CachedRequest(last') =>
        /\ (~last'.hit /\ ~Computed(last').ok) =>
               /\ last'.status = 500
               /\ last'.body = [error |-> Computed(last').error]
        /\ last'.status # 200 =>
               /\ last'.status = 500
               /\ DOMAIN last'.body = {"error"}
               /\ last'.key \notin DOMAIN CACHE'
               /\ stored' = stored]_vars

\* C6's case: /api/matrix has failed on a collection value that is no number, and
\* the cache holds nothing under its key
C6_Witness ==
    /\ last.op = "get_matrix"
    /\ ~last.hit
    /\ last.status = 500
    /\ last.body = [error |-> "ValueError"]
    /\ last.key \notin DOMAIN CACHE

CACHE_CONTROL == "public, max-age=3600, s-maxage=3600, stale-while-revalidate=7200"

CarriesCacheHeaders(l) ==
    /\ "Cache-Control" \in DOMAIN l.headers
    /\ l.headers["Cache-Control"] = CACHE_CONTROL
    /\ "ETag" \in DOMAIN l.headers

\* the last step was a request
IsResponse(l) == l.op \notin {"init", "tick"}

\* C9: every successful (HTTP 200) response of every endpoint, cached or fresh,
\* carries the Cache-Control header "public, max-age=3600, s-maxage=3600,
\* stale-while-revalidate=7200" and an ETag header; /api/health, /api/cache/info and
\* /api/cache/clear included.
C9_EverySuccessCarriesHeaders ==
    (IsResponse(last) /\ last.status = 200) => CarriesCacheHeaders(last)

\* C9 amended: the 200 responses of the four cached handlers carry both headers,
\* served from the cache or computed; those of /api/health, /api/cache/info and
\* /api/cache/clear carry neither.
C9_CachedHandlersCarryHeaders ==
    (IsResponse(last) /\ last.status = 200) =>
        IF CachedRequest(last)
        THEN CarriesCacheHeaders(last) /\ last.headers["ETag"] = MD5(last.body)
        ELSE DOMAIN last.headers = {}

\* C9's case: a 200 response served from the cache carries both headers
C9_Witness ==
    /\ CachedRequest(last)
    /\ last.hit
    /\ last.status = 200
    /\ CarriesCacheHeaders(last)

(***************************************************************************)
(* SpecWarm: warm_cache on the empty cache, one warm-up entry a step       *)
(***************************************************************************)
\* server.py:565-566  range(1, 6): the ranks 1..5 whose pairs are warmed
WARM_RANKS == 5

\* the pair (i, j) of the k-th turn of the two loops, k = 0, 1, ...
WarmPair(k) == [i |-> (k \div WARM_RANKS) + 1, j |-> (k % WARM_RANKS) + 1]

\* server.py:571-580  result_data of the warm-up of the pair (i, j)
WarmMatchData(d, i, j) ==
    LET key1 == MatchesKey(i, j)
        matches_doc == Find(d, "matches")
        games == matches_doc.val[1][key1]
    IN IF ~matches_doc.ok THEN matches_doc
       ELSE IF matches_doc.val = <<>> THEN [ok |-> FALSE, error |-> "IndexError"]
       ELSE IF key1 \notin DOMAIN matches_doc.val[1] THEN [ok |-> FALSE, error |-> "KeyError"]
       ELSE [ok |-> TRUE,
             val |-> [matches |-> games, count |-> Len(games),
                      row_rank |-> IntToStr(i), col_rank |-> IntToStr(j)]]

\* server.py:549-562  the matrix entry; an exception here leaves warm_cache through
\* its outer handler (server.py:587-588)
WarmMatrix ==
    LET cache_key == cache_key_generator(<<OP_MATRIX, V1>>)
        cached == GetFromCache(CACHE, order, cache_key, now)
        result == MatrixData(db)
        put == SetCache(cached.cache, cached.order, cache_key, result.val, now)
    IN /\ warm.pc = "matrix"
       /\ IF Truthy(cached.ret)
          THEN /\ CACHE' = cached.cache
               /\ order' = cached.order
               /\ warm' = [pc |-> "matches", k |-> 0]
               /\ UNCHANGED <<stored, owner>>
          ELSE IF result.ok
          THEN /\ CACHE' = put.cache
               /\ order' = put.order
               /\ stored' = DictSet(stored, cache_key, result.val)
               /\ owner' = DictSet(owner, cache_key,
                                   [op |-> "warm_cache", args |-> <<OP_MATRIX, V1>>])
               /\ warm' = [pc |-> "matches", k |-> 0]
          ELSE /\ CACHE' = cached.cache
               /\ order' = cached.order
               /\ warm' = [pc |-> "done", error |-> result.error]
               /\ UNCHANGED <<stored, owner>>
       /\ last' = [op |-> "warm_cache"]
       /\ steps' = steps + 1
       /\ UNCHANGED <<now, db, thread, used>>

\* server.py:565-583  one turn of the loops over i and j; an exception in the turn is
\* passed over; after the last turn warm_cache returns
WarmMatch ==
    LET i == WarmPair(warm.k).i
        j == WarmPair(warm.k).j
        args == <<OP_MATCHES, IntToStr(i), IntToStr(j)>>
        cache_key == cache_key_generator(args)
        cached == GetFromCache(CACHE, order, cache_key, now)
        result == WarmMatchData(db, i, j)
        put == SetCache(cached.cache, cached.order, cache_key, result.val, now)
    IN /\ warm.pc = "matches"
       /\ IF i = j
          THEN UNCHANGED <<CACHE, order, stored, owner>>
          ELSE IF Truthy(cached.ret) \/ ~result.ok
          THEN /\ CACHE' = cached.cache
               /\ order' = cached.order
               /\ UNCHANGED <<stored, owner>>
          ELSE /\ CACHE' = put.cache
               /\ order' = put.order
               /\ stored' = DictSet(stored, cache_key, result.val)
               /\ owner' = DictSet(owner, cache_key, [op |-> "warm_cache", args |-> args])
       /\ warm' = IF warm.k + 1 < WARM_RANKS * WARM_RANKS
                  THEN [pc |-> "matches", k |-> warm.k + 1]
                  ELSE [pc |-> "done"]
       /\ last' = [op |-> "warm_cache"]
       /\ steps' = steps + 1
       /\ UNCHANGED <<now, db, thread, used>>

\* matches documents that hold the games of some of the pairs of ranks 1..5
WarmMatchesDocs ==
    {<<>>} \cup
    {<<[f \in F |-> Games.g12]>> :
        F \in (SUBSET {<<"0", "_", "1">>, <<"1", "_", "0">>, <<"2", "_", "4">>,
                       <<"4", "_", "3">>, <<"3", "_", "9">>}) \ {{}}}

WarmDbStates ==
    {[up |-> u, Delim |-> DelimDocs, Probabilities |-> p, matches |-> m] :
        u \in BOOLEAN, p \in {ProbDocs, Append(ProbDocs, BadProbDoc)}, m \in WarmMatchesDocs}

InitWarm ==
    /\ db \in WarmDbStates
    /\ CACHE = <<>>
    /\ order = <<>>
    /\ stored = <<>>
    /\ owner = <<>>
    /\ now = 0
    /\ last = Idle
    /\ steps = 0
    /\ warm = [pc |-> "matrix"]
    /\ thread = NoThreads
    /\ used = <<>>

NextWarm == WarmMatrix \/ WarmMatch

SpecWarm == InitWarm /\ [][NextWarm]_vars

\* the warm-up entries: the matrix and the ordered pairs of distinct ranks 1..5
WarmEntries ==
    {<<OP_MATRIX, V1>>} \cup
    ({<<OP_MATCHES, IntToStr(i), IntToStr(j)>> : i, j \in 1..5} \
     {<<OP_MATCHES, IntToStr(i), IntToStr(i)>> : i \in 1..5})

\* whether the fetch of a warm-up entry succeeds on the store
FetchSucceeds(d, e) ==
    IF e[1] = OP_MATRIX THEN MatrixData(d).ok
    ELSE MatchesData(d, e[2], e[3]).ok

\* C8: warm_cache on the empty cache never raises and attempts each of its 21 entries
\* (the matrix under get_matrix's key, the 20 ordered pairs of distinct ranks 1..5
\* under get_matches' keys) on its own: when it returns, every entry whose own fetch
\* succeeded is in the cache, whichever other entries failed.
C8_EveryFetchedEntryCached ==
    warm.pc = "done" =>
        /\ Cardinality(WarmEntries) = 21
        /\ \A e \in WarmEntries :
              FetchSucceeds(db, e) => cache_key_generator(e) \in DOMAIN CACHE

(***************************************************************************)
(* Team-name resolution: the server's convert_team_name_to_id and the      *)
(* transform script's find_team_id.                                        *)
(***************************************************************************)
\* sub in s
Contains(s, sub) ==
    \E i \in 0..(Len(s) - Len(sub)) : SubSeq(s, i + 1, i + Len(sub)) = sub

\* transform_rankings.py:45-57  replacements, in the dict's order
replacements ==
    <<[old_name |-> <<"U", "n", "i", "v", "e", "r", "s", "i", "t", "y", " ", "o", "f", " ",
                      "C", "a", "l", "i", "f", "o", "r", "n", "i", "a", ",", " ", "B", "e",
                      "r", "k", "e", "l", "e", "y">>,
       new_name |-> <<"U", "n", "i", "v", "e", "r", "s", "i", "t", "y", " ", "o", "f", " ",
                      "C", "a", "l", "i", "f", "o", "r", "n", "i", "a">>],
      [old_name |-> <<"U", "n", "i", "v", "e", "r", "s", "i", "t", "y", " ", "o", "f", " ",
                      "C", "a", "l", "i", "f", "o", "r", "n", "i", "a", ",", " ", "L", "o",
                      "s", " ", "A", "n", "g", "e", "l", "e", "s">>,
       new_name |-> <<"U", "n", "i", "v", "e", "r", "s", "i", "t", "y", " ", "o", "f", " ",
                      "C", "a", "l", "i", "f", "o", "r", "n", "i", "a", "-", "L", "o", "s",
                      " ", "A", "n", "g", "e", "l", "e", "s">>],
      [old_name |-> <<"U", "n", "i", "v", "e", "r", "s", "i", "t", "y", " ", "o", "f", " ",
                      "C", "a", "l", "i", "f", "o", "r", "n", "i", "a", ",", " ", "I", "r",
                      "v", "i", "n", "e">>,
       new_name |-> <<"U", "n", "i", "v", "e", "r", "s", "i", "t", "y", " ", "o", "f", " ",
                      "C", "a", "l", "i", "f", "o", "r", "n", "i", "a", "-", "I", "r", "v",
                      "i", "n", "e">>],
      [old_name |-> <<"U", "n", "i", "v", "e", "r", "s", "i", "t", "y", " ", "o", "f", " ",
                      "C", "a", "l", "i", "f", "o", "r", "n", "i", "a", ",", " ", "S", "a",
                      "n", "t", "a", " ", "B", "a", "r", "b", "a", "r", "a">>,
       new_name |-> <<"U", "n", "i", "v", "e", "r", "s", "i", "t", "y", " ", "o", "f", " ",
                      "C", "a", "l", "i", "f", "o", "r", "n", "i", "a", "-", "S", "a", "n",
                      "t", "a", " ", "B", "a", "r", "b", "a", "r", "a">>],
      [old_name |-> <<"U", "n", "i", "v", "e", "r", "s", "i", "t", "y", " ", "o", "f", " ",
                      "C", "a", "l", "i", "f", "o", "r", "n", "i", "a", ",", " ", "D", "a",
                      "v", "i", "s">>,
       new_name |-> <<"U", "n", "i", "v", "e", "r", "s", "i", "t", "y", " ", "o", "f", " ",
                      "C", "a", "l", "i", "f", "o", "r", "n", "i", "a", "-", "D", "a", "v",
                      "i", "s">>],
      [old_name |-> <<"U", "n", "i", "v", "e", "r", "s", "i", "t", "y", " ", "o", "f", " ",
                      "C", "a", "l", "i", "f", "o", "r", "n", "i", "a", ",", " ", "S", "a",
                      "n", " ", "D", "i", "e", "g", "o">>,
       new_name |-> <<"U", "n", "i", "v", "e", "r", "s", "i", "t", "y", " ", "o", "f", " ",
                      "C", "a", "l", "i", "f", "o", "r", "n", "i", "a", "-", "S", "a", "n",
                      " ", "D", "i", "e", "g", "o">>],
      [old_name |-> <<"S", "t", ".", " ", "F", "r", "a", "n", "c", "i", "s", " ", "C", "o",
                      "l", "l", "e", "g", "e", " ", "(", "N", "Y", ")">>,
       new_name |-> <<"S", "a", "i", "n", "t", " ", "F", "r", "a", "n", "c", "i", "s">>],
      [old_name |-> <<"S", "t", ".", " ", "F", "r", "a", "n", "c", "i", "s">>,
       new_name |-> <<"S", "a", "i", "n", "t", " ", "F", "r", "a", "n", "c", "i", "s">>],
      [old_name |-> <<"C", "a", "l", "i", "f", "o", "r", "n", "i", "a", " ", "B", "a", "p",
                      "t", "i", "s", "t", " ", "U", "n", "i", "v", "e", "r", "s", "i", "t",
                      "y">>,
       new_name |-> <<"C", "a", "l", "i", "f", "o", "r", "n", "i", "a", " ", "B", "a", "p",
                      "t", "i", "s", "t", " ", "U", "n", "i", "v", "e", "r", "s", "i", "t",
                      "y">>],
      [old_name |-> <<"C", "a", "l", " ", "B", "a", "p", "t", "i", "s", "t">>,
       new_name |-> <<"C", "a", "l", "i", "f", "o", "r", "n", "i", "a", " ", "B", "a", "p",
                      "t", "i", "s", "t">>],
      [old_name |-> <<"C", "B", "U">>,
       new_name |-> <<"C", "a", "l", "i", "f", "o", "r", "n", "i", "a", " ", "B", "a", "p",
                      "t", "i", "s", "t", " ", "U", "n", "i", "v", "e", "r", "s", "i", "t",
                      "y">>]>>

\* transform_rankings.py:36-64  the stripped name, replaced when it is a key of
\* replacements; a false name is returned as it is
normalize_team_name(team_name) ==
    LET normalized == Strip(team_name)
        hit == {i \in 1..Len(replacements) : replacements[i].old_name = normalized}
    IN IF team_name = <<>> THEN team_name
       ELSE IF hit # {} THEN replacements[CHOOSE i \in hit : \A j \in hit : i <= j].new_name
       ELSE normalized

\* transform_rankings.py:90-115  the elif chain: the token looked for in the team
\* name and the strings one of which the mapped name must contain
PARTIAL_MATCHES ==
    <<[token |-> <<"U", "S", "C">>,
       mapped |-> {<<"U", "S", "C">>}],
      [token |-> <<"U", "C", "L", "A">>,
       mapped |-> {<<"U", "C", "L", "A">>}],
      [token |-> <<"S", "t", "a", "n", "f", "o", "r", "d">>,
       mapped |-> {<<"S", "t", "a", "n", "f", "o", "r", "d">>}],
      [token |-> <<"B", "e", "r", "k", "e", "l", "e", "y">>,
       mapped |-> {<<"U", "C", " ", "B", "e", "r", "k", "e", "l", "e", "y">>,
                   <<"C", "a", "l", "i", "f", "o", "r", "n", "i", "a">>}],
      [token |-> <<"I", "r", "v", "i", "n", "e">>,
       mapped |-> {<<"I", "r", "v", "i", "n", "e">>}],
      [token |-> <<"S", "a", "n", "t", "a", " ", "B", "a", "r", "b", "a", "r", "a">>,
       mapped |-> {<<"U", "C", "S", "B">>,
                   <<"S", "a", "n", "t", "a", " ", "B", "a", "r", "b", "a", "r", "a">>}],
      [token |-> <<"D", "a", "v", "i", "s">>,
       mapped |-> {<<"D", "a", "v", "i", "s">>}],
      [token |-> <<"S", "a", "n", " ", "D", "i", "e", "g", "o">>,
       mapped |-> {<<"S", "a", "n", " ", "D", "i", "e", "g", "o">>}],
      [token |-> <<"P", "e", "p", "p", "e", "r", "d", "i", "n", "e">>,
       mapped |-> {<<"P", "e", "p", "p", "e", "r", "d", "i", "n", "e">>}],
      [token |-> <<"L", "o", "y", "o", "l", "a">>,
       mapped |-> {<<"L", "M", "U">>, <<"L", "o", "y", "o", "l", "a">>}],
      [token |-> <<"L", "o", "n", "g", " ", "B", "e", "a", "c", "h">>,
       mapped |-> {<<"L", "o", "n", "g", " ", "B", "e", "a", "c", "h">>}],
      [token |-> <<"N", "a", "v", "a", "l", " ", "A", "c", "a", "d", "e", "m", "y">>,
       mapped |-> {<<"N", "a", "v", "y">>, <<"N", "a", "v", "a", "l">>}],
      [token |-> <<"F", "r", "a", "n", "c", "i", "s">>,
       mapped |-> {<<"F", "r", "a", "n", "c", "i", "s">>}]>>

\* transform_rankings.py:90-115  whether some branch of the chain accepts the pair
PartialMatch(team_name, mapped_name) ==
    \E k \in 1..Len(PARTIAL_MATCHES) :
        /\ Contains(team_name, PARTIAL_MATCHES[k].token)
        /\ \E c \in PARTIAL_MATCHES[k].mapped : Contains(mapped_name, c)

\* the first entry of a dict, in its order, among the entries I
FirstOf(I) == CHOOSE i \in I : \A j \in I : i <= j

\* transform_rankings.py:67-117  the id found, or not found (None)
find_team_id(team_name, mappings) ==
    LET Entries == 1..Len(mappings)
        exact == {i \in Entries : mappings[i].name = team_name}
        normalized == {i \in Entries : mappings[i].name = normalize_team_name(team_name)}
        nocase == {i \in Entries : Lower(mappings[i].name) = Lower(team_name)}
        partial == {i \in Entries : PartialMatch(team_name, mappings[i].name)}
        Found(I) == [found |-> TRUE, id |-> mappings[FirstOf(I)].id]
    IN IF team_name = <<>> THEN [found |-> FALSE]
       ELSE IF exact # {} THEN Found(exact)
       ELSE IF normalized # {} THEN Found(normalized)
       ELSE IF nocase # {} THEN Found(nocase)
       ELSE IF partial # {} THEN Found(partial)
       ELSE [found |-> FALSE]

(***************************************************************************)
(* SpecTeams: one team name resolved by the server and by the transform    *)
(* script, the script with one of two mapping tables.                      *)
(***************************************************************************)
\* the names resolved: empty, blank, mapped names and their case variants, padded
\* names, names that only hold a token of the chain, keys of replacements, a number
TeamNames ==
    {<<>>,
     <<" ">>,
     <<"U", "C", "L", "A">>,
     <<"u", "c", "l", "a">>,
     <<"U", "c", "l", "a">>,
     <<" ", "U", "C", "L", "A", " ">>,
     <<"U", "C", "L", "A", " ", "B", "r", "u", "i", "n", "s">>,
     <<"U", "S", "C">>,
     <<"u", "s", "c">>,
     <<"U", "n", "i", "v", "e", "r", "s", "i", "t", "y", " ", "o", "f", " ", "C", "a",
        "l", "i", "f", "o", "r", "n", "i", "a", ",", " ", "B", "e", "r", "k", "e", "l",
        "e", "y">>,
     <<"S", "t", ".", " ", "F", "r", "a", "n", "c", "i", "s">>,
     <<"B", "e", "r", "k", "e", "l", "e", "y">>,
     <<"C", "a", "l">>,
     <<"c", "a", "l">>,
     <<"H", "a", "r", "v", "a", "r", "d">>,
     <<"2">>,
     <<"S", "t", "a", "n", "f", "o", "r", "d", " ", "C", "a", "r", "d", "i", "n", "a",
        "l">>,
     <<"C", "B", "U">>,
     <<"S", "o", "u", "t", "h", "e", "r", "n", " ", "C", "a", "l">>,
     <<"c", "a", "l", "i", "f", "o", "r", "n", "i", "a">>}

\* transform_rankings.py:13-26  a mappings file with the long names of the
\* replacements
LongNameMappings ==
    <<[name |-> <<"C", "a", "l", "i", "f", "o", "r", "n", "i", "a", " ", "B", "a", "p",
                  "t", "i", "s", "t">>,
       id |-> 5],
      [name |-> <<"U", "C", " ", "B", "e", "r", "k", "e", "l", "e", "y">>,
       id |-> 3],
      [name |-> <<"U", "n", "i", "v", "e", "r", "s", "i", "t", "y", " ", "o", "f", " ",
                  "C", "a", "l", "i", "f", "o", "r", "n", "i", "a">>,
       id |-> 3],
      [name |-> <<"S", "a", "i", "n", "t", " ", "F", "r", "a", "n", "c", "i", "s">>,
       id |-> 21],
      [name |-> <<"C", "a", "l", "i", "f", "o", "r", "n", "i", "a", " ", "B", "a", "p",
                  "t", "i", "s", "t", " ", "U", "n", "i", "v", "e", "r", "s", "i", "t",
                  "y">>,
       id |-> 5]>>

\* transform_rankings.py:13-26  the tables load_team_mappings returns: the server's
\* names, or the long names
MappingTables == {TEAM_NAME_TO_ID, LongNameMappings}

InitTeams ==
    /\ db \in [team_name : TeamNames, mappings : MappingTables]
    /\ last = Idle
    /\ steps = 0
    /\ CACHE = <<>>
    /\ order = <<>>
    /\ stored = <<>>
    /\ owner = <<>>
    /\ now = 0
    /\ warm = NoWarm
    /\ thread = NoThreads
    /\ used = <<>>

\* the server resolves the name against its own table
ResolveServer ==
    /\ last = Idle
    /\ last' = [op |-> "convert_team_name_to_id", team_name |-> db.team_name,
                mappings |-> TEAM_NAME_TO_ID,
                ret |-> convert_team_name_to_id(db.team_name)]
    /\ steps' = steps + 1
    /\ UNCHANGED <<CACHE, order, now, stored, owner, db, warm, thread, used>>

\* the transform script resolves the name against the mappings it loaded
ResolveTransform ==
    /\ last = Idle
    /\ last' = [op |-> "find_team_id", team_name |-> db.team_name,
                mappings |-> db.mappings,
                ret |-> find_team_id(db.team_name, db.mappings)]
    /\ steps' = steps + 1
    /\ UNCHANGED <<CACHE, order, now, stored, owner, db, warm, thread, used>>

NextTeams == ResolveServer \/ ResolveTransform

SpecTeams == InitTeams /\ [][NextTeams]_vars

(***************************************************************************)
(* Claims about team-name resolution                                       *)
(***************************************************************************)
Resolved(l) == l.op \in {"convert_team_name_to_id", "find_team_id"}

\* the resolution the claim describes: exact, then case-insensitive, then the
\* substring tokens, the first match winning; otherwise unmapped
TieredResolution(team_name, mappings) ==
    LET Entries == 1..Len(mappings)
        exact == {i \in Entries : mappings[i].name = team_name}
        nocase == {i \in Entries : Lower(mappings[i].name) = Lower(team_name)}
        partial == {i \in Entries : PartialMatch(team_name, mappings[i].name)}
        Found(I) == [found |-> TRUE, id |-> mappings[FirstOf(I)].id]
    IN IF Strip(team_name) = <<>> THEN [found |-> FALSE]
       ELSE IF exact # {} THEN Found(exact)
       ELSE IF nocase # {} THEN Found(nocase)
       ELSE IF partial # {} THEN Found(partial)
       ELSE [found |-> FALSE]

\* the name as the resolver looks it up: the server strips it first
LookedUp(l) == IF l.op = "convert_team_name_to_id" THEN Strip(l.team_name) ELSE l.team_name

\* C11: convert_team_name_to_id and find_team_id resolve a name by the exact match,
\* then the case-insensitive match, then the substring tokens, the first match
\* winning, and otherwise report unmapped; hence a case variant of a mapped name gets
\* the id of that name, and an empty or blank name is unmapped.
C11_TieredResolution ==
    Resolved(last) =>
        /\ last.ret = TieredResolution(LookedUp(last), last.mappings)
        /\ \A i \in 1..Len(last.mappings) :
              Lower(last.mappings[i].name) = Lower(last.team_name) =>
                  last.ret = [found |-> TRUE, id |-> last.mappings[i].id]
        /\ Strip(last.team_name) = <<>> => ~last.ret.found

\* C11, the part about case variants and blank names alone
C11_CaseVariantsAndBlanks ==
    Resolved(last) =>
        /\ \A i \in 1..Len(last.mappings) :
              Lower(last.mappings[i].name) = Lower(last.team_name) =>
                  last.ret = [found |-> TRUE, id |-> last.mappings[i].id]
        /\ Strip(last.team_name) = <<>> => ~last.ret.found

(***************************************************************************)
(* SpecRace: two request handlers run on threads that share CACHE with no  *)
(* lock (app.run, server.py:600).  Each handler looks its key up and, on a *)
(* miss, stores the payload it computed; a thread switch can fall between  *)
(* any two of the statements of get_from_cache and set_cache.              *)
(***************************************************************************)
Threads == {1, 2}

\* the keys the two handlers ask for: an entry of the filled cache, or a new key
RaceKeys == {1, CACHE_MAX_SIZE + 1, CACHE_MAX_SIZE + 2}

\* the payload the handler on thread t computes
RaceData(t) == [v |-> IF t = 1 THEN "a" ELSE "b"]

\* the clock when the handlers start: right after the cache was filled, or late
\* enough for the entries stamped 1 to have expired
RaceClock(n) == {n, CACHE_TTL + 1}

\* a handler about to call get_from_cache(key)
NewHandler(key, data) ==
    [pc |-> "key_in_CACHE", key |-> key, data |-> data, entry |-> None,
     seen |-> [cache |-> <<>>, order |-> <<>>], oldest_key |-> {},
     missed |-> FALSE, status |-> 0, error |-> "", cut |-> FALSE]

InitRace ==
    /\ \E n \in FillLevels : \E p \in FillPatterns : \E t0 \in RaceClock(n) :
        /\ CACHE = [k \in 1..n |-> [data |-> [v |-> "a"], timestamp |-> FillStamp(p, k, n)]]
        /\ order = FillOrder(p, n)
        /\ stored = [k \in 1..n |-> [v |-> "a"]]
        /\ now = t0
    /\ \E keys \in [Threads -> RaceKeys] :
        thread = [t \in Threads |-> NewHandler(keys[t], RaceData(t))]
    /\ owner = <<>>
    /\ last = Idle
    /\ steps = 0
    /\ db = NoDb
    /\ warm = NoWarm
    /\ used = <<>>

\* the positions inside a call of get_from_cache or set_cache: after its first
\* statement and before its return
InsideCall == {"read_entry", "age_test", "del_expired",
               "scan_begin", "scan_end", "del_oldest", "insert"}

\* thread t makes a step that leaves it as h; a thread it cuts into, in the middle of
\* a call, is marked
Switch(t, h) ==
    thread' = [u \in Threads |->
                  IF u = t THEN h
                  ELSE [thread[u] EXCEPT !.cut = @ \/ thread[u].pc \in InsideCall]]

\* the handler's except clause: the response is 500 with the error
Raise(h, e) == [h EXCEPT !.pc = "done", !.status = Err500(e).status, !.error = e]

\* the handler answers 200
Respond(h) == [h EXCEPT !.pc = "done", !.status = Ok200(h.data).status]

Step(t, name) ==
    /\ thread[t].pc = name
    /\ steps' = steps + 1
    /\ UNCHANGED <<now, owner, db, warm, used>>

\* server.py:243  if key in CACHE
key_in_CACHE(t) ==
    LET h == thread[t] IN
    /\ Step(t, "key_in_CACHE")
    /\ IF h.key \in DOMAIN CACHE
       THEN Switch(t, [h EXCEPT !.pc = "read_entry"])
       ELSE Switch(t, [h EXCEPT !.pc = "size_check", !.missed = TRUE])
    /\ last' = [op |-> "key_in_CACHE", thread |-> t, raised |-> ""]
    /\ UNCHANGED <<CACHE, order, stored>>

\* server.py:244  data, timestamp = CACHE[key]
read_entry(t) ==
    LET h == thread[t] IN
    /\ Step(t, "read_entry")
    /\ IF h.key \in DOMAIN CACHE
       THEN /\ Switch(t, [h EXCEPT !.pc = "age_test", !.entry = CACHE[h.key]])
            /\ last' = [op |-> "read_entry", thread |-> t, raised |-> ""]
       ELSE /\ Switch(t, Raise(h, "KeyError"))
            /\ last' = [op |-> "read_entry", thread |-> t, raised |-> "KeyError"]
    /\ UNCHANGED <<CACHE, order, stored>>

\* server.py:245-246  if time.time() - timestamp < CACHE_TTL: return data; the
\* handler answers with the cached payload
age_test(t) ==
    LET h == thread[t] IN
    /\ Step(t, "age_test")
    /\ IF IsFresh(h.entry.timestamp, now)
       THEN IF Truthy(h.entry.data)
            THEN Switch(t, Respond([h EXCEPT !.data = h.entry.data]))
            ELSE Switch(t, [h EXCEPT !.pc = "size_check"])
       ELSE Switch(t, [h EXCEPT !.pc = "del_expired"])
    /\ last' = [op |-> "age_test", thread |-> t, raised |-> ""]
    /\ UNCHANGED <<CACHE, order, stored>>

\* server.py:249-250  del CACHE[key]; return None
del_expired(t) ==
    LET h == thread[t] IN
    /\ Step(t, "del_expired")
    /\ IF h.key \in DOMAIN CACHE
       THEN /\ CACHE' = DictDel(CACHE, h.key)
            /\ order' = OrderDel(order, h.key)
            /\ Switch(t, [h EXCEPT !.pc = "size_check", !.missed = TRUE])
            /\ last' = [op |-> "del_expired", thread |-> t, raised |-> ""]
       ELSE /\ Switch(t, Raise(h, "KeyError"))
            /\ last' = [op |-> "del_expired", thread |-> t, raised |-> "KeyError"]
            /\ UNCHANGED <<CACHE, order>>
    /\ UNCHANGED stored

\* server.py:255  if len(CACHE) >= CACHE_MAX_SIZE
size_check(t) ==
    LET h == thread[t] IN
    /\ Step(t, "size_check")
    /\ IF IsFull(CACHE)
       THEN Switch(t, [h EXCEPT !.pc = "scan_begin"])
       ELSE Switch(t, [h EXCEPT !.pc = "insert"])
    /\ last' = [op |-> "size_check", thread |-> t, raised |-> ""]
    /\ UNCHANGED <<CACHE, order, stored>>

\* server.py:257  min(CACHE.keys(), ...) starts to iterate over the dict
scan_begin(t) ==
    LET h == thread[t] IN
    /\ Step(t, "scan_begin")
    /\ Switch(t, [h EXCEPT !.pc = "scan_end", !.seen = [cache |-> CACHE, order |-> order]])
    /\ last' = [op |-> "scan_begin", thread |-> t, raised |-> ""]
    /\ UNCHANGED <<CACHE, order, stored>>

\* server.py:257  min(...) returns.  On the dict it started on, it returns the oldest
\* key.  When another thread has changed the dict meanwhile, the iteration raises
\* RuntimeError (the dict changed size), or the lambda raises KeyError (the key it was
\* given is gone), or the scan gets through with the oldest key of what it saw.
scan_end(t) ==
    LET h == thread[t]
        Outcomes ==
            IF h.seen = [cache |-> CACHE, order |-> order]
            THEN {[raised |-> "", oldest_key |-> {OldestKey(CACHE, order)}]}
            ELSE {[raised |-> "RuntimeError", oldest_key |-> {}],
                  [raised |-> "KeyError", oldest_key |-> {}],
                  [raised |-> "", oldest_key |-> {OldestKey(h.seen.cache, h.seen.order)}]}
                 \cup (IF order = <<>> THEN {}
                       ELSE {[raised |-> "", oldest_key |-> {OldestKey(CACHE, order)}]})
    IN
    /\ Step(t, "scan_end")
    /\ \E r \in Outcomes :
        /\ IF r.raised = ""
           THEN Switch(t, [h EXCEPT !.pc = "del_oldest", !.oldest_key = r.oldest_key])
           ELSE Switch(t, Raise(h, r.raised))
        /\ last' = [op |-> "scan_end", thread |-> t, raised |-> r.raised]
    /\ UNCHANGED <<CACHE, order, stored>>

\* server.py:258  del CACHE[oldest_key]
del_oldest(t) ==
    LET h == thread[t]
        oldest_key == CHOOSE k \in h.oldest_key : TRUE
    IN
    /\ Step(t, "del_oldest")
    /\ IF oldest_key \in DOMAIN CACHE
       THEN /\ CACHE' = DictDel(CACHE, oldest_key)
            /\ order' = OrderDel(order, oldest_key)
            /\ Switch(t, [h EXCEPT !.pc = "insert"])
            /\ last' = [op |-> "del_oldest", thread |-> t, raised |-> ""]
       ELSE /\ Switch(t, Raise(h, "KeyError"))
            /\ last' = [op |-> "del_oldest", thread |-> t, raised |-> "KeyError"]
            /\ UNCHANGED <<CACHE, order>>
    /\ UNCHANGED stored

\* server.py:260  CACHE[key] = (data, time.time()); the handler answers with the
\* payload it computed
insert(t) ==
    LET h == thread[t] IN
    /\ Step(t, "insert")
    /\ CACHE' = DictSet(CACHE, h.key, [data |-> h.data, timestamp |-> now])
    /\ order' = OrderSet(order, h.key)
    /\ stored' = DictSet(stored, h.key, h.data)
    /\ Switch(t, Respond(h))
    /\ last' = [op |-> "insert", thread |-> t, raised |-> ""]

NextRace ==
    \E t \in Threads :
        \/ key_in_CACHE(t)
        \/ read_entry(t)
        \/ age_test(t)
        \/ del_expired(t)
        \/ size_check(t)
        \/ scan_begin(t)
        \/ scan_end(t)
        \/ del_oldest(t)
        \/ insert(t)

SpecRace == InitRace /\ [][NextRace]_vars

(***************************************************************************)
(* Claims about concurrent handlers                                        *)
(***************************************************************************)
Racing == DOMAIN thread = Threads

AllDone == Racing /\ \A t \in Threads : thread[t].pc = "done"

\* C12: when two concurrent handlers both miss on the same key and each goes on to
\* compute and store, then whatever the interleaving and the fill of the cache (at
\* capacity, with an expired entry), both answer 200 and the cache ends with the key
\* holding the payload of the store that ran last.
C12_BenignRace ==
    (/\ AllDone
     /\ thread[1].key = thread[2].key
     /\ \A t \in Threads : thread[t].missed)
    => /\ \A t \in Threads : thread[t].status = 200
       /\ thread[1].key \in DOMAIN CACHE
       /\ CACHE[thread[1].key].data = stored[thread[1].key]

\* a del statement found its key already deleted by the other handler
DeleteOfDeletedKey ==
    Racing /\ last.op \in {"del_expired", "del_oldest"} /\ last.raised = "KeyError"

OverCapacity == Cardinality(DOMAIN CACHE) > CACHE_MAX_SIZE

\* a thread switch fell inside a call of get_from_cache or set_cache
Interleaved == Racing /\ \E t \in Threads : thread[t].cut

\* C13: the cache is not thread-safe.  A del of a key the other handler has already
\* deleted, or a cache of more than CACHE_MAX_SIZE entries, happens, and happens only
\* in runs where a thread switch fell inside a call of get_from_cache or set_cache:
\* when every call runs from its first statement to its return undisturbed, neither
\* does.
C13_BadStateOnlyWhenInterleaved ==
    Racing => ((DeleteOfDeletedKey \/ OverCapacity) => Interleaved)

\* the two handlers have both passed the size check below capacity and stored
C13_Witness == Interleaved /\ OverCapacity /\ AllDone

\* the second handler's del finds the key gone
C13_WitnessDelete == Interleaved /\ DeleteOfDeletedKey

(***************************************************************************)
(* Claims about which entry a full cache gives up                          *)
(***************************************************************************)
\* when the entry of key k was last read or written
LastUse(k) ==
    IF k \in DOMAIN used /\ used[k] > CACHE[k].timestamp THEN used[k]
    ELSE CACHE[k].timestamp

\* C14: set_cache evicts the least recently used entry: an entry that get_from_cache
\* returned more recently than another entry of the cache was last read or written is
\* not evicted while that other entry stays.
C14_EvictsLeastRecentlyUsed ==
    [][last'.op = "set_cache" =>
        \A e \in last'.evicted \cap DOMAIN used : \A k \in DOMAIN CACHE \ {e} :
            used[e] <= LastUse(k)]_vars

\* C15: with a clock that never goes back, whenever set_cache evicts at capacity while
\* some entry of the cache has age >= 3600 seconds, the entry it evicts has age >= 3600
\* seconds: a live entry is evicted only when every entry is live.
C15_ExpiredEvictedFirst ==
    [][last'.op = "set_cache" =>
        \A e \in last'.evicted :
            (\E k \in DOMAIN CACHE : Age(CACHE[k], now) >= 3600) =>
                Age(CACHE[e], now) >= 3600]_vars

\* C15's case: a store has evicted from a full cache that held expired entries and a
\* live one: after it the live entry and another expired entry are still there
C15_Witness ==
    /\ last.op = "set_cache"
    /\ last.evicted # {}
    /\ \E k \in DOMAIN CACHE \ {last.key} : Age(CACHE[k], now) >= 3600
    /\ \E k \in DOMAIN CACHE \ {last.key} : Age(CACHE[k], now) < 3600
    /\ Cardinality(DOMAIN CACHE) = CACHE_MAX_SIZE

====
